---------------------------- MODULE Spec2Model ----------------------------
(***************************************************************************)
(* Saltmarsh PFT calibration (scripts/00_calibrate_PFTs.py): the growth    *)
(* engine SimpleSaltmarsh, the trajectory simulator simulate_h_ag, the     *)
(* bisection calibrate_maintenance_for_bg_factor and the main program.     *)
(*                                                                         *)
(* Numbers.  The program computes in binary floating point; the model      *)
(* computes on a fixed-point grid of integers and rounds every quotient    *)
(* toward minus infinity.  The units are chosen so that the grid is closed *)
(* under the program's formulas:                                           *)
(*   lengths      r_*, h_*           one length unit u                     *)
(*   volumes      V_*, maint, grow   pi * u^3 (np.pi is the unit, so       *)
(*                                   np.pi * r**2 * h is the integer r*r*h)*)
(*   energies     *_resources        pi * u^2 * [sun_c] * [time]           *)
(*   w_ag, w_bg, w_b_a               1/WS                                  *)
(*   water_c                         1/WCS                                 *)
(*   ag_factor, bg_factor            1/FS                                  *)
(*   maint_factor                    1/MS per time unit                    *)
(*   ratio_ag, adjustment            1/RS                                  *)
(*   w_ratio_ag_bg                   1/(WS*RS)                             *)
(*   ratio_vol, r_V_ag_bg            1/VS                                  *)
(* A floor of the program that lies below the resolution of the grid       *)
(* (1e-6, 1e-9, 1e-22) is the smallest positive grid value.                *)
(***************************************************************************)
EXTENDS Integers, Sequences, FiniteSets, TLC

\* ------------------------------------------------------------ bounds
\* longest trajectory (N_STEPS) and deepest bisection (max_iter) explored
MaxSteps == 3
MaxIter == 4
\* largest worker pool (MAX_WORKERS) explored
MaxWorkers == 2

\* ------------------------------------------------------------- units
FS == 10
WS == 2
WCS == 2
RS == 1000
VS == 100
RECURSIVE Pow2(_)
Pow2(n) == IF n <= 0 THEN 1 ELSE 2 * Pow2(n - 1)
\* one maint_factor unit is 2^-MaxIter, so every midpoint 0.5*(f_min+f_max)
\* of MaxIter bisection steps between whole factors is on the grid, as it is
\* exact in binary floating point
MS == Pow2(MaxIter)

\* ------------------------------------------- constants of the program
Half == RS \div 2
ClipLo == 1
ClipHi == RS - 1
RatioVolHi == 250
RatioVolLo == 15
VolFloor == 1
DenomFloor == 1
None == -1
NaN == -2

NoErr == "none"
KeyError == "KeyError"
ZeroDivisionError == "ZeroDivisionError"

\* ------------------------------------------------------------ helpers
Max(a, b) == IF a >= b THEN a ELSE b
Min(a, b) == IF a <= b THEN a ELSE b
Abs(a) == IF a < 0 THEN -a ELSE a
Clip(x, lo, hi) == Max(lo, Min(hi, x))
Has(d, k) == k \in DOMAIN d
\* attribute or item assignment: creates the entry when it does not exist
Set(d, k, v) == (k :> v) @@ d

RECURSIVE CbrtFrom(_, _)
CbrtFrom(x, h) == IF (h + 1) * (h + 1) * (h + 1) > x THEN h ELSE CbrtFrom(x, h + 1)
\* x ** (1.0 / 3.0), rounded down to the grid
Cbrt(x) == IF x >= 0 THEN CbrtFrom(x, 0) ELSE -CbrtFrom(-x, 0)

ParamKeys == {"sun_c", "water_c", "maint_factor", "growth_factor", "w_b_a", "w_ag", "w_bg"}
GeomKeys == {"r_ag", "h_ag", "r_bg", "h_bg", "r_ag_ic", "r_bg_ic", "volume_ic"}

\* ------------------------------------------------- SimpleSaltmarsh
\* An object is a function from attribute names to values.  "err" and
\* "finite" are the model's: the exception a method raised (the object is
\* then left as it was when the exception was raised), and whether every
\* float attribute is finite (not inf, not nan).
Failed(s) == s.err # NoErr \/ ~s.finite
Raise(s, e) == [s EXCEPT !.err = e]

\* dict.copy()
Copy(d) == d

SimpleSaltmarsh(parameter, geometry) ==
    LET s0 == [err |-> NoErr, finite |-> TRUE, parameter |-> Copy(parameter)]
    IN  IF ~(GeomKeys \subseteq DOMAIN geometry)
        THEN Raise(s0, KeyError)
        ELSE [err |-> NoErr, finite |-> TRUE,
              parameter |-> Copy(parameter),
              r_ag |-> geometry.r_ag, h_ag |-> geometry.h_ag,
              r_bg |-> geometry.r_bg, h_bg |-> geometry.h_bg,
              r_ag_ic |-> geometry.r_ag_ic, r_bg_ic |-> geometry.r_bg_ic,
              volume_ic |-> geometry.volume_ic,
              time |-> 0, w_h_bg |-> 0, w_r_bg |-> 0, w_h_ag |-> 0, w_r_ag |-> 0,
              ag_factor |-> FS, bg_factor |-> FS]

\* the step lengths added up instead of replaced
prepareNextTimeStep_elapsed(s, t_ini, t_end) ==
    IF Failed(s) THEN s
    ELSE [s EXCEPT !.time = s.time + t_end - t_ini,
                   !.w_h_bg = 0, !.w_r_bg = 0, !.w_h_ag = 0, !.w_r_ag = 0]

\* lines 104-114
prepareNextTimeStep(s, t_ini, t_end) ==
    IF Failed(s) THEN s
    ELSE [s EXCEPT !.time = t_end - t_ini,
                   !.w_h_bg = 0, !.w_r_bg = 0, !.w_h_ag = 0, !.w_r_ag = 0]

plantVolume(s) ==
    IF Failed(s) THEN s
    ELSE LET V_ag == s.r_ag * s.r_ag * s.h_ag
             V_bg == s.r_bg * s.r_bg * s.h_bg
         IN  Set(Set(Set(Set(s, "V_ag", V_ag), "V_bg", V_bg),
                     "r_V_ag_bg", (V_ag * VS) \div Max(V_bg, VolFloor)),
                 "volume", V_ag + V_bg)

\* maintenance charged per step whatever its length
plantMaintenance_per_step(s) ==
    IF Failed(s) THEN s
    ELSE IF ~Has(s.parameter, "maint_factor") THEN Raise(s, KeyError)
    ELSE Set(s, "maint", (s.volume * s.parameter.maint_factor) \div MS)

\* lines 125-129
plantMaintenance(s) ==
    IF Failed(s) THEN s
    ELSE IF ~Has(s.parameter, "maint_factor") THEN Raise(s, KeyError)
    ELSE Set(s, "maint", (s.volume * s.parameter.maint_factor * s.time) \div MS)

agResources(s) ==
    IF Failed(s) THEN s
    ELSE IF ~Has(s.parameter, "sun_c") THEN Raise(s, KeyError)
    ELSE Set(s, "ag_resources",
             (s.ag_factor * s.r_ag * s.r_ag * s.parameter.sun_c * s.time) \div FS)

\* denom is kept in half length units: 2 * (h_ag + 0.5 * h_bg)
bgResources(s) ==
    IF Failed(s) THEN s
    ELSE LET denom2 == Max(2 * s.h_ag + s.h_bg, DenomFloor)
         IN  IF ~Has(s.parameter, "sun_c") \/ ~Has(s.parameter, "water_c")
             THEN Raise(s, KeyError)
             ELSE Set(s, "bg_resources",
                      ((s.bg_factor * s.r_bg * s.r_bg * s.h_bg
                          * s.parameter.sun_c * s.parameter.water_c * 2)
                        \div (FS * WCS * denom2)) * s.time)

growthResources(s) ==
    IF Failed(s) THEN s
    ELSE LET available == Min(s.ag_resources, s.bg_resources)
         IN  IF ~Has(s.parameter, "growth_factor") THEN Raise(Set(s, "available_resources", available), KeyError)
             ELSE LET pot == available * s.parameter.growth_factor
                  IN  Set(Set(Set(s, "available_resources", available),
                              "growth_pot", pot),
                          "grow", pot - s.maint)

\* ag / (ag + bg + 1e-22): the guard only matters when ag + bg = 0, where the
\* quotient is 0
RatioAg(ag, bg) == IF ag + bg = 0 THEN 0 ELSE (ag * RS) \div (ag + bg)

\* the adjustment never reset
KeepAdjustment_always(ratio_vol, adj) == TRUE

\* lines 188-195: is self.adjustment left as 0.5 - ratio_ag ?
KeepAdjustment(ratio_vol, adj) ==
    \/ ratio_vol > RatioVolHi /\ adj < 0
    \/ ratio_vol < RatioVolLo /\ adj > 0
    \/ RatioVolLo <= ratio_vol /\ ratio_vol <= RatioVolHi

\* growth handed to both compartments with the aboveground share
Allocation_same_share(s) ==
    IF s.grow > 0
    THEN LET ratio_vol == (s.V_ag * VS) \div Max(s.V_bg, VolFloor)
             adj0 == Half - s.ratio_ag
             keep == KeepAdjustment(ratio_vol, adj0)
             adj == IF keep THEN adj0 ELSE 0
             s1 == Set(s, "adjustment", adj)
         IN  IF ~Has(s.parameter, "w_b_a")
             THEN [st |-> Raise(s1, KeyError), V_ag_incr |-> 0, V_bg_incr |-> 0, np |-> FALSE]
             ELSE LET w == s.parameter.w_b_a * (RS - adj)
                  IN  [st |-> Set(s1, "w_ratio_ag_bg", w),
                       V_ag_incr |-> (s.grow * (WS * RS - w)) \div (WS * RS),
                       V_bg_incr |-> (s.grow * (WS * RS - w)) \div (WS * RS),
                       np |-> keep]
    ELSE [st |-> s,
          V_ag_incr |-> (s.grow * Half) \div RS,
          V_bg_incr |-> (s.grow * Half) \div RS,
          np |-> FALSE]

\* a deficit taken from the aboveground compartment alone
Allocation_deficit_from_ag(s) ==
    IF s.grow > 0
    THEN [st |-> s, V_ag_incr |-> s.grow, V_bg_incr |-> 0, np |-> FALSE]
    ELSE [st |-> s, V_ag_incr |-> s.grow, V_bg_incr |-> 0, np |-> FALSE]

\* a deficit that is added instead of removed
Allocation_deficit_added(s) ==
    IF s.grow > 0
    THEN [st |-> s, V_ag_incr |-> s.grow, V_bg_incr |-> 0, np |-> FALSE]
    ELSE [st |-> s,
          V_ag_incr |-> ((0 - s.grow) * Half) \div RS,
          V_bg_incr |-> ((0 - s.grow) * Half) \div RS,
          np |-> FALSE]

\* lines 181-206: the split of grow; np tells whether the increments are
\* numpy floats (they are when self.adjustment, a numpy float through
\* np.clip, was not replaced by the int 0)
Allocation(s) ==
    IF s.grow > 0
    THEN LET ratio_vol == (s.V_ag * VS) \div Max(s.V_bg, VolFloor)
             adj0 == Half - s.ratio_ag
             keep == KeepAdjustment(ratio_vol, adj0)
             adj == IF keep THEN adj0 ELSE 0
             s1 == Set(s, "adjustment", adj)
         IN  IF ~Has(s.parameter, "w_b_a")
             THEN [st |-> Raise(s1, KeyError), V_ag_incr |-> 0, V_bg_incr |-> 0, np |-> FALSE]
             ELSE LET w == s.parameter.w_b_a * (RS - adj)
                  IN  [st |-> Set(s1, "w_ratio_ag_bg", w),
                       V_ag_incr |-> (s.grow * (WS * RS - w)) \div (WS * RS),
                       V_bg_incr |-> (s.grow * w) \div (WS * RS),
                       np |-> keep]
    ELSE [st |-> s,
          V_ag_incr |-> (s.grow * Half) \div RS,
          V_bg_incr |-> (s.grow * Half) \div RS,
          np |-> FALSE]

\* volumes without the floor
FloorVolume_none(V) == V

\* lines 213-214: max(V, 0.0)
FloorVolume(V) == Max(V, 0)

\* the height recomputed, the radius left as it was
InvertCylinder_height_only(s, V, wkey, hkey, rkey, np) ==
    IF s.err # NoErr THEN s
    ELSE IF ~Has(s.parameter, wkey) THEN Raise(s, KeyError)
    ELSE LET w == s.parameter[wkey]
         IN  IF w = 0 THEN Raise(s, ZeroDivisionError)
             ELSE Set(s, hkey, Cbrt((V * WS * WS) \div (w * w)))

\* lines 216-219 for one compartment: h = (V / (pi * w**2)) ** (1/3), r = w * h.
\* With w = 0 the division raises ZeroDivisionError when V is a Python float
\* and yields inf or nan (no exception) when V is a numpy float.
InvertCylinder(s, V, wkey, hkey, rkey, np) ==
    IF s.err # NoErr THEN s
    ELSE IF ~Has(s.parameter, wkey) THEN Raise(s, KeyError)
    ELSE LET w == s.parameter[wkey]
         IN  IF w = 0
             THEN IF np THEN [Set(Set(s, hkey, NaN), rkey, NaN) EXCEPT !.finite = FALSE]
                  ELSE Raise(s, ZeroDivisionError)
             ELSE LET h == Cbrt((V * WS * WS) \div (w * w))
                  IN  Set(Set(s, hkey, h), rkey, (w * h) \div WS)

plantGrowth(s) ==
    IF Failed(s) THEN s
    ELSE LET s1 == Set(s, "ratio_ag", Clip(RatioAg(s.ag_factor, s.bg_factor), ClipLo, ClipHi))
             a == Allocation(s1)
         IN  IF a.st.err # NoErr THEN a.st
             ELSE LET V_ag1 == s.V_ag + a.V_ag_incr
                      V_bg1 == s.V_bg + a.V_bg_incr
                      V_ag == FloorVolume(V_ag1)
                      V_bg == FloorVolume(V_bg1)
                      s2 == Set(Set(a.st, "V_ag", V_ag), "V_bg", V_bg)
                      s3 == InvertCylinder(s2, V_ag, "w_ag", "h_ag", "r_ag", a.np /\ V_ag1 >= 0)
                  IN  InvertCylinder(s3, V_bg, "w_bg", "h_bg", "r_bg", a.np /\ V_bg1 >= 0)

\* lines 232-233
SetFactors(s, aboveground_factor, belowground_factor) ==
    IF Failed(s) THEN s
    ELSE [s EXCEPT !.ag_factor = aboveground_factor, !.bg_factor = belowground_factor]

\* the step without its last plantVolume
progress_one_timestep_stale(s, aboveground_factor, belowground_factor, dt) ==
    plantGrowth(growthResources(bgResources(agResources(
        plantMaintenance(plantVolume(
            SetFactors(prepareNextTimeStep(s, 0, dt),
                       aboveground_factor, belowground_factor)))))))

\* lines 223-252
progress_one_timestep(s, aboveground_factor, belowground_factor, dt) ==
    plantVolume(plantGrowth(growthResources(bgResources(agResources(
        plantMaintenance(plantVolume(
            SetFactors(prepareNextTimeStep(s, 0, dt),
                       aboveground_factor, belowground_factor))))))))
\* ---------------------------------------------------------------- state
VARIABLES
    parameter_base,   \* the caller's parameter dict (createPlant)
    geometry_init,    \* the caller's geometry dict (createPlant)
    conf,             \* the arguments of the run: DT, N_STEPS, ag_factor, f_min, f_max, tol_h, max_iter
    pc,               \* position of the program
    sm,               \* the SimpleSaltmarsh object alive, <<>> when there is none
    sim,              \* frame of simulate_h_ag
    cal,              \* frame of calibrate_maintenance_for_bg_factor
    target_h_ag,      \* main: the reference height, None before it is computed
    results,          \* main: results dict
    todo,             \* main: the PFT names the for loop has still to visit
    ref_maint,        \* main: the reference maint_factor, None before line 357
    err,              \* the exception that ended the program, NoErr when none
    evals,            \* history: the simulate_h_ag calls that returned
    prev,             \* history: the object as it was before its latest step
    declared          \* history: the dicts as createPlant returned them

vars == <<parameter_base, geometry_init, conf, pc, sm, sim, cal,
          target_h_ag, results, todo, ref_maint, err, evals, prev, declared>>

\* scripts/02_run_simulations.py
VARIABLES
    args,             \* the command line as argparse returns it
    config,           \* USER CONFIGURATION: CATEGORIES_TO_RUN, RECOMPUTE_COMPLETED, MAX_WORKERS
    folder,           \* the *.xml files of XML_FOLDER
    csv,              \* the rows of CSV_LOGFILE, <<>> when the file does not exist
    xml_files,        \* main: the selection
    futures,          \* main: the submitted runs, by file
    run_results,      \* main: results, the list the as_completed loop fills
    dpc,              \* position of main
    csv_ic            \* history: the rows of CSV_LOGFILE as main found them

dvars == <<args, config, folder, csv, xml_files, futures, run_results, dpc, csv_ic>>

\* the batch dispatcher is not running
DispatcherIdle ==
    /\ args = <<>> /\ config = <<>> /\ folder = {} /\ csv = <<>>
    /\ xml_files = <<>> /\ futures = <<>> /\ run_results = <<>>
    /\ dpc = "idle" /\ csv_ic = <<>>

\* scripts/01a_create_control_files_static_setups_monoculture.py
VARIABLES
    gen,              \* the loop variables of the generator: k counts the iterations done
    written,          \* the control files on disk, by file name
    made,             \* the directories os.makedirs has created
    gen_done          \* history: xml_filename and out_dir of every iteration

gvars == <<gen, written, made, gen_done>>

\* the generator is not running
GeneratorIdle == gen = <<>> /\ written = <<>> /\ made = {} /\ gen_done = <<>>

NoObject == <<>>

\* createPlant(), lines 22-53, on the grid
createGeometry(r_ag, h_ag, r_bg, h_bg) ==
    [r_ag |-> r_ag, h_ag |-> h_ag, r_bg |-> r_bg, h_bg |-> h_bg,
     r_ag_ic |-> r_ag, r_bg_ic |-> r_bg,
     volume_ic |-> r_ag * r_ag * h_ag + r_bg * r_bg * h_bg]

createParameter(sun_c, water_c, maint_factor, growth_factor, w_b_a, w_ag, w_bg) ==
    [sun_c |-> sun_c, water_c |-> water_c, maint_factor |-> maint_factor,
     growth_factor |-> growth_factor, w_b_a |-> w_b_a, w_ag |-> w_ag, w_bg |-> w_bg]

\* ------------------------------------------------ the growth engine alone
\* SpecEngine drives one SimpleSaltmarsh object through progress_one_timestep
\* with factors and dt supplied fresh at every step.
EngineGeometries ==
    { createGeometry(10, 20, 10, 20), createGeometry(0, 0, 0, 0),
      createGeometry(10, 20, 0, 0), createGeometry(0, 20, 10, 20),
      createGeometry(20, 20, 5, 10), createGeometry(4, 8, 20, 40),
      createGeometry(10, 10, 10, 20), createGeometry(10, 0, 10, 20) }

EngineParameters ==
    { createParameter(1, 3, m, 100, w, 1, 1) : m \in {2, MS, 2 * MS + 4}, w \in {1, 2} }
      \cup { createParameter(1, 3, 2, 100, 1, 0, 1), createParameter(1, 3, 2, 100, 1, 1, 0),
              createParameter(1, 3, 2 * MS, 0, 0, 2, 1), createParameter(0, 0, 0, 100, 1, 2, 2) }

EngineFactors == { <<FS, 4>>, <<4, FS>>, <<FS, 0>> }
EngineDt == {0, 1}

EngineInit ==
    /\ parameter_base \in EngineParameters
    /\ geometry_init \in EngineGeometries
    /\ sm = SimpleSaltmarsh(parameter_base, geometry_init)
    /\ sim = [i |-> 0]
    /\ pc = "engine"
    /\ conf = <<>> /\ cal = <<>> /\ target_h_ag = None /\ results = <<>>
    /\ todo = <<>> /\ ref_maint = None /\ err = NoErr /\ evals = <<>>
    /\ prev = NoObject
    /\ declared = [parameter |-> parameter_base, geometry |-> geometry_init]
    /\ DispatcherIdle
    /\ GeneratorIdle

EngineStep ==
    /\ pc = "engine"
    /\ sm.err = NoErr
    /\ sim.i < MaxSteps
    /\ \E f \in EngineFactors, dt \in EngineDt :
          sm' = progress_one_timestep(sm, f[1], f[2], dt)
    /\ prev' = sm
    /\ sim' = [i |-> sim.i + 1]
    /\ err' = sm'.err
    /\ UNCHANGED <<parameter_base, geometry_init, conf, pc, cal, target_h_ag,
                   results, todo, ref_maint, evals, declared>>
    /\ UNCHANGED dvars
    /\ UNCHANGED gvars

EngineNext == EngineStep
SpecEngine == EngineInit /\ [][EngineNext]_vars
\* ------------------------------------------------------- the main program
\* lines 339-352: bg_factor of the four PFTs (0.389, 0.5, 0.611, 0.711), and
\* the order in which the for loop of line 377 visits the dict
pfts == [pft_1 |-> 4, pft_2 |-> 5, pft_3 |-> 6, pft_4 |-> 7]
PftOrder == <<"pft_1", "pft_2", "pft_3", "pft_4">>
reference_pft == "pft_1"
TypeError == "TypeError"

\* maint_factor written into the caller's dict
SimCopies_alias(base, geom, maint_factor) ==
    [parameter |-> Set(base, "maint_factor", maint_factor),
     geometry |-> geom,
     caller_parameter |-> Set(base, "maint_factor", maint_factor),
     caller_geometry |-> geom]

\* lines 265-269 and 78: what the callee works on, and what the caller's
\* dicts are afterwards (both are copied, so the caller's are untouched)
SimCopies(base, geom, maint_factor) ==
    [parameter |-> Set(Copy(base), "maint_factor", maint_factor),
     geometry |-> Copy(geom),
     caller_parameter |-> base,
     caller_geometry |-> geom]

\* lines 273-274: the loop, n iterations
RECURSIVE Iterate(_, _, _, _, _)
Iterate(s, ag_factor, bg_factor, dt, n) ==
    IF n <= 0 THEN s
    ELSE Iterate(progress_one_timestep(s, ag_factor, bg_factor, dt),
                 ag_factor, bg_factor, dt, n - 1)

\* simulate_h_ag as a function: the object at line 276 (its h_ag is the
\* value returned when its err is NoErr)
simulate(bg_factor, maint_factor, n_steps, dt, base, geom, ag_factor) ==
    LET c == SimCopies(base, geom, maint_factor)
    IN  Iterate(SimpleSaltmarsh(c.parameter, c.geometry), ag_factor, bg_factor, dt, n_steps)

simulate_h_ag(bg_factor, maint_factor, n_steps, dt, base, geom, ag_factor) ==
    simulate(bg_factor, maint_factor, n_steps, dt, base, geom, ag_factor).h_ag

\* a call of simulate_h_ag: the frame, with the position to return to
SimFrame(bg_factor, maint_factor, ret) ==
    [bg_factor |-> bg_factor, maint_factor |-> maint_factor,
     n_steps |-> conf.N_STEPS, dt |-> conf.DT, ag_factor |-> conf.ag_factor,
     i |-> 0, h |-> None, ret |-> ret]

\* the lower bound taken for the midpoint
Midpoint_lower_bound(f_min, f_max) == f_min

\* 0.5 * (f_min + f_max)
Midpoint(f_min, f_max) == ((f_min + f_max) * Half) \div RS

\* every midpoint accepted
Accepts_always(h_mid, target, tol_h) == TRUE

\* a height at exactly tol_h from the target accepted
Accepts_inclusive(h_mid, target, tol_h) == Abs(h_mid - target) <= tol_h

\* line 312: the tolerance test
Accepts(h_mid, target, tol_h) == Abs(h_mid - target) < tol_h

\* the halves of the interval exchanged
NextBounds_reversed(f_min, f_max, f_mid, h_mid, target) ==
    IF h_mid > target THEN <<f_min, f_mid>> ELSE <<f_mid, f_max>>

\* lines 315-320: bounds after judging the midpoint
NextBounds(f_min, f_max, f_mid, h_mid, target) ==
    IF h_mid > target THEN <<f_mid, f_max>> ELSE <<f_min, f_mid>>

\* the closest midpoint kept instead of the last
Best_closest(f_best, h_best, f_mid, h_mid, target) ==
    IF f_best # None /\ Abs(h_best - target) < Abs(h_mid - target)
    THEN <<f_best, h_best>> ELSE <<f_mid, h_mid>>

\* line 310: the pair calibrate returns at line 322
Best(f_best, h_best, f_mid, h_mid, target) == <<f_mid, h_mid>>

\* every PFT calibrated to the height the previous calibration achieved
CalTarget_previous ==
    IF cal # <<>> /\ cal.h_best # None THEN cal.h_best ELSE target_h_ag

\* line 390: target_h_ag=target_h_ag
CalTarget == target_h_ag

\* the endpoints never exchanged
Inverted_never(h_low, h_high) == FALSE

\* line 299: if h_low < h_high
Inverted(h_low, h_high) == h_low < h_high

\* one iteration too many
LoopContinues_one_more(it, max_iter) == it <= max_iter

\* line 306: for _ in range(max_iter)
LoopContinues(it, max_iter) == it < max_iter

\* no PFT treated as the reference
IsReference_never(name) == FALSE

\* line 380
IsReference(name) == name = reference_pft

Crash(e) == pc' = "crashed" /\ err' = e

\* lines 354-367
MainReference ==
    /\ pc = "main"
    /\ IF ~Has(parameter_base, "maint_factor")
       THEN /\ Crash(KeyError)
            /\ UNCHANGED <<sim, ref_maint>>
       ELSE /\ ref_maint' = parameter_base.maint_factor
            /\ sim' = SimFrame(pfts[reference_pft], ref_maint', "main_target")
            /\ pc' = "sim_new"
            /\ err' = err
    /\ UNCHANGED <<parameter_base, geometry_init, conf, sm, cal, target_h_ag,
                   results, todo, evals, prev, declared>>
    /\ UNCHANGED dvars
    /\ UNCHANGED gvars

\* lines 264-271
SimNew ==
    /\ pc = "sim_new"
    /\ LET c == SimCopies(parameter_base, geometry_init, sim.maint_factor)
           obj == SimpleSaltmarsh(c.parameter, c.geometry)
       IN  /\ parameter_base' = c.caller_parameter
           /\ geometry_init' = c.caller_geometry
           /\ sm' = obj
           /\ IF obj.err # NoErr THEN Crash(obj.err)
              ELSE pc' = "sim_loop" /\ err' = err
    /\ prev' = NoObject
    /\ UNCHANGED <<conf, sim, cal, target_h_ag, results, todo, evals,
                   ref_maint, declared>>
    /\ UNCHANGED dvars
    /\ UNCHANGED gvars

\* lines 273-274, one iteration
SimStep ==
    /\ pc = "sim_loop"
    /\ sim.i < sim.n_steps
    /\ LET obj == progress_one_timestep(sm, sim.ag_factor, sim.bg_factor, sim.dt)
       IN  /\ sm' = obj
           /\ IF obj.err # NoErr THEN Crash(obj.err)
              ELSE pc' = pc /\ err' = err
    /\ prev' = sm
    /\ sim' = [sim EXCEPT !.i = @ + 1]
    /\ UNCHANGED <<parameter_base, geometry_init, conf, cal, target_h_ag,
                   results, todo, evals, ref_maint, declared>>
    /\ UNCHANGED dvars
    /\ UNCHANGED gvars

\* line 276
SimReturn ==
    /\ pc = "sim_loop"
    /\ sim.i = sim.n_steps
    /\ sim' = [sim EXCEPT !.h = sm.h_ag]
    /\ evals' = Append(evals, [bg_factor |-> sim.bg_factor,
                               maint_factor |-> sim.maint_factor, h |-> sm.h_ag])
    /\ sm' = NoObject
    /\ pc' = sim.ret
    /\ UNCHANGED <<parameter_base, geometry_init, conf, cal, target_h_ag,
                   results, todo, err, ref_maint, prev, declared>>
    /\ UNCHANGED dvars
    /\ UNCHANGED gvars

\* lines 359, 375
MainTarget ==
    /\ pc = "main_target"
    /\ target_h_ag' = sim.h
    /\ results' = <<>>
    /\ todo' = PftOrder
    /\ pc' = "main_loop"
    /\ UNCHANGED <<parameter_base, geometry_init, conf, sm, sim, cal, err,
                   evals, ref_maint, prev, declared>>
    /\ UNCHANGED dvars
    /\ UNCHANGED gvars

\* lines 380-386
MainRecordReference ==
    /\ pc = "main_loop"
    /\ todo # <<>>
    /\ IsReference(Head(todo))
    /\ results' = Set(results, Head(todo), <<pfts[Head(todo)], ref_maint, target_h_ag>>)
    /\ todo' = Tail(todo)
    /\ UNCHANGED <<parameter_base, geometry_init, conf, pc, sm, sim, cal,
                   target_h_ag, err, evals, ref_maint, prev, declared>>
    /\ UNCHANGED dvars
    /\ UNCHANGED gvars

\* lines 387-396 and 295: enter calibrate, evaluate f_min
MainCalibrate ==
    /\ pc = "main_loop"
    /\ todo # <<>>
    /\ ~IsReference(Head(todo))
    /\ cal' = [pft |-> Head(todo), bg_factor |-> pfts[Head(todo)],
               target_h_ag |-> CalTarget,
               f_min |-> conf.f_min, f_max |-> conf.f_max,
               tol_h |-> conf.tol_h, max_iter |-> conf.max_iter,
               h_low |-> None, h_high |-> None, f_best |-> None, h_best |-> None,
               it |-> 0, runs |-> 0]
    /\ sim' = SimFrame(pfts[Head(todo)], conf.f_min, "cal_high")
    /\ pc' = "sim_new"
    /\ UNCHANGED <<parameter_base, geometry_init, conf, sm, target_h_ag,
                   results, todo, err, evals, ref_maint, prev, declared>>
    /\ UNCHANGED dvars
    /\ UNCHANGED gvars

\* lines 295-296: h_low is back, evaluate f_max
CalHigh ==
    /\ pc = "cal_high"
    /\ cal' = [cal EXCEPT !.h_low = sim.h, !.runs = @ + 1]
    /\ sim' = SimFrame(cal.bg_factor, cal.f_max, "cal_swap")
    /\ pc' = "sim_new"
    /\ UNCHANGED <<parameter_base, geometry_init, conf, sm, target_h_ag,
                   results, todo, err, evals, ref_maint, prev, declared>>
    /\ UNCHANGED dvars
    /\ UNCHANGED gvars

\* lines 296-304: h_high is back, swap when inverted
CalSwap ==
    /\ pc = "cal_swap"
    /\ cal' = IF Inverted(cal.h_low, sim.h)
              THEN [cal EXCEPT !.f_min = cal.f_max, !.f_max = cal.f_min,
                               !.h_low = sim.h, !.h_high = cal.h_low,
                               !.runs = @ + 1]
              ELSE [cal EXCEPT !.h_high = sim.h, !.runs = @ + 1]
    /\ pc' = "cal_loop"
    /\ UNCHANGED <<parameter_base, geometry_init, conf, sm, sim, target_h_ag,
                   results, todo, err, evals, ref_maint, prev, declared>>
    /\ UNCHANGED dvars
    /\ UNCHANGED gvars

\* lines 306-308: next iteration, evaluate the midpoint
CalMidpoint ==
    /\ pc = "cal_loop"
    /\ LoopContinues(cal.it, cal.max_iter)
    /\ sim' = SimFrame(cal.bg_factor, Midpoint(cal.f_min, cal.f_max), "cal_judge")
    /\ pc' = "sim_new"
    /\ UNCHANGED <<parameter_base, geometry_init, conf, sm, cal, target_h_ag,
                   results, todo, err, evals, ref_maint, prev, declared>>
    /\ UNCHANGED dvars
    /\ UNCHANGED gvars

\* lines 310-320: h_mid is back
CalJudge ==
    /\ pc = "cal_judge"
    /\ LET f_mid == sim.maint_factor
           h_mid == sim.h
           b == NextBounds(cal.f_min, cal.f_max, f_mid, h_mid, cal.target_h_ag)
           best == Best(cal.f_best, cal.h_best, f_mid, h_mid, cal.target_h_ag)
       IN  IF Accepts(h_mid, cal.target_h_ag, cal.tol_h)
           THEN /\ cal' = [cal EXCEPT !.f_best = best[1], !.h_best = best[2],
                                      !.runs = @ + 1]
                /\ pc' = "cal_return"
           ELSE /\ cal' = [cal EXCEPT !.f_best = best[1], !.h_best = best[2],
                                      !.f_min = b[1], !.f_max = b[2],
                                      !.it = @ + 1, !.runs = @ + 1]
                /\ pc' = "cal_loop"
    /\ UNCHANGED <<parameter_base, geometry_init, conf, sm, sim, target_h_ag,
                   results, todo, err, evals, ref_maint, prev, declared>>
    /\ UNCHANGED dvars
    /\ UNCHANGED gvars

\* line 306: the range is exhausted
CalExhausted ==
    /\ pc = "cal_loop"
    /\ ~LoopContinues(cal.it, cal.max_iter)
    /\ pc' = "cal_return"
    /\ UNCHANGED <<parameter_base, geometry_init, conf, sm, sim, cal,
                   target_h_ag, results, todo, err, evals, ref_maint, prev,
                   declared>>
    /\ UNCHANGED dvars
    /\ UNCHANGED gvars

\* lines 322 and 397-401: the pair is returned and recorded; formatting a
\* None with :.6e raises TypeError
CalReturn ==
    /\ pc = "cal_return"
    /\ results' = Set(results, cal.pft, <<cal.bg_factor, cal.f_best, cal.h_best>>)
    /\ todo' = Tail(todo)
    /\ IF cal.f_best = None THEN Crash(TypeError)
       ELSE pc' = "main_loop" /\ err' = err
    /\ UNCHANGED <<parameter_base, geometry_init, conf, sm, sim, cal,
                   target_h_ag, evals, ref_maint, prev, declared>>
    /\ UNCHANGED dvars
    /\ UNCHANGED gvars

\* line 377: the dict is exhausted
MainDone ==
    /\ pc = "main_loop"
    /\ todo = <<>>
    /\ pc' = "done"
    /\ UNCHANGED <<parameter_base, geometry_init, conf, sm, sim, cal,
                   target_h_ag, results, todo, err, evals, ref_maint, prev,
                   declared>>
    /\ UNCHANGED dvars
    /\ UNCHANGED gvars

\* ---- inputs
MainGeometries == { createGeometry(10, 20, 10, 20) }
MainParameters ==
    { createParameter(1, 3, m, 100, w, 1, 1) : m \in {2, MS \div 2, MS + 4}, w \in {1, 2} }
MainBrackets == { <<0, MS>>, <<0, 2 * MS>>, <<2 * MS, 0>>, <<MS, MS>> }
MainConf ==
    { [DT |-> 1, N_STEPS |-> n, ag_factor |-> FS,
       f_min |-> b[1], f_max |-> b[2], tol_h |-> t, max_iter |-> k] :
         n \in {0, 1, MaxSteps}, b \in MainBrackets, t \in {1, 3},
         k \in {0, 1, MaxIter} }

\* records that lack one required key
Remove(d, k) == [x \in DOMAIN d \ {k} |-> d[x]]
MalformedParameters ==
    { Remove(createParameter(1, 3, m, 100, 1, 1, 1), k) : m \in {2, 2 * MS}, k \in ParamKeys }
MalformedGeometries == { Remove(createGeometry(10, 20, 10, 20), k) : k \in GeomKeys }
MalformedConf ==
    { [DT |-> 1, N_STEPS |-> n, ag_factor |-> FS,
       f_min |-> 0, f_max |-> 2 * MS, tol_h |-> 1, max_iter |-> 1] : n \in {0, 1, 2} }
Malformed(parameter, geometry) ==
    ~(ParamKeys \subseteq DOMAIN parameter) \/ ~(GeomKeys \subseteq DOMAIN geometry)

Init ==
    /\ \/ /\ parameter_base \in MainParameters
          /\ geometry_init \in MainGeometries
          /\ conf \in MainConf
       \/ /\ parameter_base \in MalformedParameters
          /\ geometry_init \in MainGeometries
          /\ conf \in MalformedConf
       \/ /\ parameter_base \in MainParameters
          /\ geometry_init \in MalformedGeometries
          /\ conf \in MalformedConf
    /\ pc = "main"
    /\ sm = NoObject /\ sim = <<>> /\ cal = <<>>
    /\ target_h_ag = None /\ results = <<>> /\ todo = <<>>
    /\ ref_maint = None /\ err = NoErr /\ evals = <<>>
    /\ prev = NoObject
    /\ declared = [parameter |-> parameter_base, geometry |-> geometry_init]
    /\ DispatcherIdle
    /\ GeneratorIdle

Next ==
    \/ MainReference \/ SimNew \/ SimStep \/ SimReturn \/ MainTarget
    \/ MainRecordReference \/ MainCalibrate \/ CalHigh \/ CalSwap
    \/ CalMidpoint \/ CalJudge \/ CalExhausted \/ CalReturn \/ MainDone

Spec == Init /\ [][Next]_vars
\* ================================================================
\* scripts/02_run_simulations.py: the batch dispatcher.
\*
\* A path is a record [dir, stem, id]: the file <dir>/<stem>_<id>.xml.  A row
\* of the log keeps the columns the program reads again (xml_file, status)
\* and exit_code, log_file; the time stamps and the duration are left out,
\* no decision of the program depends on them.

\* XML_FOLDER = "../xml_control_files"
XML_FOLDER == "../xml_control_files"

\* the directory XML_FOLDER resolves to from the working directory, and the
\* same folder of another checkout
HereFolder == "/work/xml_control_files"
ElsewhereFolder == "/elsewhere/xml_control_files"

\* os.path.abspath: a relative path is resolved against the working
\* directory, an absolute one is returned as it is
abspath(p) == IF p.dir = XML_FOLDER THEN [p EXCEPT !.dir = HereFolder] ELSE p

\* CATEGORY_PATTERNS; the stem "*" is the pattern "*.xml"
CATEGORY_PATTERNS ==
    [c \in {"community_dynamic", "community_static", "monoculture_static",
            "one_plant_static", "one_plant_dynamic", "two_plant_static",
            "two_plant_dynamic"} |-> c] @@ ("all" :> "*")

\* CATEGORIES_TO_RUN as the repository sets it
CATEGORIES_TO_RUN ==
    <<"one_plant_static", "one_plant_dynamic", "community_dynamic", "community_static">>

\* the alphabetical order of the file names
StemOrder ==
    <<"community_dynamic", "community_static", "monoculture_static", "notes",
      "one_plant_dynamic", "one_plant_static", "two_plant_dynamic", "two_plant_static">>

StemRank(s) == CHOOSE i \in DOMAIN StemOrder : StemOrder[i] = s

PathLess(a, b) ==
    \/ StemRank(a.stem) < StemRank(b.stem)
    \/ a.stem = b.stem /\ a.id < b.id

\* sorted(...)
sorted(seq) == SortSeq(seq, PathLess)

\* glob.glob: the matching files in the order the file system lists them
RECURSIVE glob(_)
glob(S) ==
    IF S = {} THEN <<>>
    ELSE LET f == CHOOSE x \in S : \A y \in S : x = y \/ ~PathLess(x, y)
         IN  <<f>> \o glob(S \ {f})

list_all_xml == sorted(glob(folder))

\* fnmatch.fnmatch(f, os.path.join(XML_FOLDER, pat))
fnmatch(f, pat) ==
    /\ f.dir = pat.dir
    /\ pat.stem = "*" \/ f.stem = pat.stem

patterns_for(cats) ==
    LET known == SelectSeq(cats, LAMBDA c : c \in DOMAIN CATEGORY_PATTERNS)
    IN  [i \in DOMAIN known |-> [dir |-> XML_FOLDER, stem |-> CATEGORY_PATTERNS[known[i]]]]

AnyMatch(f, pats) == \E i \in DOMAIN pats : fnmatch(f, pats[i])

\* the exclude-list applied only when there is no only-list
filter_by_categories_only_wins(files, only_categories, exclude_categories) ==
    IF files = <<>> THEN <<>>
    ELSE IF only_categories # <<>>
            /\ ~ \E i \in DOMAIN only_categories : only_categories[i] = "all"
    THEN SelectSeq(files, LAMBDA f : AnyMatch(f, patterns_for(only_categories)))
    ELSE IF exclude_categories # <<>>
    THEN SelectSeq(files, LAMBDA f : ~AnyMatch(f, patterns_for(exclude_categories)))
    ELSE files

\* lines 132-157
filter_by_categories(files, only_categories, exclude_categories) ==
    IF files = <<>> THEN <<>>
    ELSE LET only ==
                 IF only_categories # <<>>
                    /\ ~ \E i \in DOMAIN only_categories : only_categories[i] = "all"
                 THEN SelectSeq(files, LAMBDA f : AnyMatch(f, patterns_for(only_categories)))
                 ELSE files
         IN  IF exclude_categories # <<>>
             THEN SelectSeq(only, LAMBDA f : ~AnyMatch(f, patterns_for(exclude_categories)))
             ELSE only

\* read_logfile
read_logfile == csv

select_xml_files_done_first(retry_only, only_categories, exclude_categories, include_done) ==
    LET filtered == filter_by_categories(list_all_xml, only_categories, exclude_categories)
        log      == read_logfile
        failed   == {abspath(log[i].xml_file) : i \in {j \in DOMAIN log : log[j].status # "OK"}}
        done     == {abspath(log[i].xml_file) : i \in {j \in DOMAIN log : log[j].status = "OK"}}
    IN  IF include_done THEN filtered
        ELSE IF retry_only
        THEN sorted(SelectSeq(filtered, LAMBDA f : abspath(f) \in failed))
        ELSE SelectSeq(filtered, LAMBDA f : abspath(f) \notin done)

select_xml_files(retry_only, only_categories, exclude_categories, include_done) ==
    LET filtered == filter_by_categories(list_all_xml, only_categories, exclude_categories)
        log      == read_logfile
        failed   == {abspath(log[i].xml_file) : i \in {j \in DOMAIN log : log[j].status # "OK"}}
        done     == {abspath(log[i].xml_file) : i \in {j \in DOMAIN log : log[j].status = "OK"}}
    IN  IF retry_only
        THEN sorted(SelectSeq(filtered, LAMBDA f : abspath(f) \in failed))
        ELSE IF include_done THEN filtered
        ELSE SelectSeq(filtered, LAMBDA f : abspath(f) \notin done)

\* the exit codes the external simulator returns
ExitCodes == {0, 1, 2}

Status_always_ok(returncode) == "OK"

\* "OK" if process.returncode == 0 else "ERROR"
Status(returncode) == IF returncode = 0 THEN "OK" ELSE "ERROR"

\* run_simulation, once the external process has returned
run_simulation(xml_file, returncode) ==
    [xml_file  |-> abspath(xml_file),
     log_file  |-> [stem |-> xml_file.stem, id |-> xml_file.id],
     exit_code |-> returncode,
     status    |-> Status(returncode)]

\* write_results_to_csv(results), mode 'a'
write_results_to_csv(rows) == csv \o rows

\* main: only_categories
OnlyCategories ==
    LET chosen == IF args.override_only # <<>> THEN args.override_only
                  ELSE config.CATEGORIES_TO_RUN
    IN  IF chosen = <<>> THEN <<"all">> ELSE chosen

\* the in-script flag ignored
IncludeDone_command_line == args.include_done

\* main: include_done
IncludeDone == args.include_done \/ config.RECOMPUTE_COMPLETED

\* the runs a worker thread has taken and not yet finished
Running == {i \in DOMAIN futures : futures[i].state = "running"}
Queued == {i \in DOMAIN futures : futures[i].state = "queued"}

\* main up to the executor: parse, select, list; every selected file is
\* submitted
MainSelect ==
    /\ dpc = "start"
    /\ LET sel == select_xml_files(args.retry_errors, OnlyCategories,
                                   args.exclude, IncludeDone)
       IN  /\ xml_files' = sel
           /\ IF sel = <<>> \/ args.list_only
              THEN /\ dpc' = "done"
                   /\ futures' = futures
              ELSE /\ dpc' = "running"
                   /\ futures' = [i \in DOMAIN sel |->
                                     [xml |-> sel[i], state |-> "queued", started |-> 0,
                                      returncode |-> None, result |-> NoObject]]
    /\ UNCHANGED <<args, config, folder, csv, run_results, csv_ic>>
    /\ UNCHANGED vars
    /\ UNCHANGED gvars

\* a free worker thread takes the oldest queued run and starts the simulator
WorkerStart ==
    /\ dpc = "running"
    /\ Queued # {}
    /\ Cardinality(Running) < config.MAX_WORKERS
    /\ LET i == CHOOSE j \in Queued : \A k \in Queued : j <= k
       IN  futures' = [futures EXCEPT ![i].state = "running",
                                      ![i].started = futures[i].started + 1]
    /\ UNCHANGED <<args, config, folder, csv, xml_files, run_results, dpc, csv_ic>>
    /\ UNCHANGED vars
    /\ UNCHANGED gvars

\* the simulator of a running future exits; run_simulation returns its row
WorkerFinish ==
    /\ dpc = "running"
    /\ \E i \in Running, code \in ExitCodes :
          futures' = [futures EXCEPT ![i].state = "finished",
                                     ![i].returncode = code,
                                     ![i].result = run_simulation(futures[i].xml, code)]
    /\ UNCHANGED <<args, config, folder, csv, xml_files, run_results, dpc, csv_ic>>
    /\ UNCHANGED vars
    /\ UNCHANGED gvars

\* as_completed yields a finished future; main appends its result
AsCompleted ==
    /\ dpc = "running"
    /\ \E i \in DOMAIN futures :
          /\ futures[i].state = "finished"
          /\ futures' = [futures EXCEPT ![i].state = "yielded"]
          /\ run_results' = Append(run_results, futures[i].result)
    /\ UNCHANGED <<args, config, folder, csv, xml_files, dpc, csv_ic>>
    /\ UNCHANGED vars
    /\ UNCHANGED gvars

\* every future was yielded, the executor is closed, the log is written
WriteResults ==
    /\ dpc = "running"
    /\ \A i \in DOMAIN futures : futures[i].state = "yielded"
    /\ csv' = write_results_to_csv(run_results)
    /\ dpc' = "done"
    /\ UNCHANGED <<args, config, folder, xml_files, futures, run_results, csv_ic>>
    /\ UNCHANGED vars
    /\ UNCHANGED gvars

Path(dir, stem, id) == [dir |-> dir, stem |-> stem, id |-> id]

Row(dir, stem, id, code) ==
    [xml_file  |-> Path(dir, stem, id),
     log_file  |-> [stem |-> stem, id |-> id],
     exit_code |-> code,
     status    |-> Status(code)]

DispatchFolders ==
    { {},
      {Path(XML_FOLDER, "community_dynamic", 1), Path(XML_FOLDER, "one_plant_static", 1),
       Path(XML_FOLDER, "two_plant_static", 1)},
      {Path(XML_FOLDER, "community_dynamic", 2), Path(XML_FOLDER, "community_dynamic", 1),
       Path(XML_FOLDER, "notes", 1)} }

DispatchLogs ==
    { <<>>,
      <<Row(HereFolder, "community_dynamic", 1, 0)>>,
      <<Row(HereFolder, "community_dynamic", 1, 1), Row(HereFolder, "community_dynamic", 1, 0),
        Row(HereFolder, "one_plant_static", 1, 1)>>,
      <<Row(ElsewhereFolder, "community_dynamic", 1, 0), Row(HereFolder, "notes", 1, 1),
        Row(HereFolder, "two_plant_static", 1, 0)>> }

DispatchArgs ==
    [retry_errors : BOOLEAN, include_done : BOOLEAN, list_only : BOOLEAN,
     override_only : {<<>>, <<"all">>, <<"community_dynamic">>},
     exclude : {<<>>, <<"one_plant_static">>}]

DispatchConfig ==
    [CATEGORIES_TO_RUN : {CATEGORIES_TO_RUN, <<>>},
     RECOMPUTE_COMPLETED : BOOLEAN,
     MAX_WORKERS : 1..MaxWorkers]

DispatchInit ==
    /\ args \in DispatchArgs
    /\ config \in DispatchConfig
    /\ folder \in DispatchFolders
    /\ csv \in DispatchLogs
    /\ csv_ic = csv
    /\ xml_files = <<>>
    /\ futures = <<>>
    /\ run_results = <<>>
    /\ dpc = "start"
    /\ parameter_base = NoObject /\ geometry_init = NoObject /\ conf = NoObject
    /\ pc = "idle" /\ sm = NoObject /\ sim = NoObject /\ cal = NoObject
    /\ target_h_ag = None /\ results = <<>> /\ todo = <<>> /\ ref_maint = None
    /\ err = NoErr /\ evals = <<>> /\ prev = NoObject /\ declared = NoObject
    /\ GeneratorIdle

DispatchNext ==
    \/ MainSelect
    \/ WorkerStart
    \/ WorkerFinish
    \/ AsCompleted
    \/ WriteResults

SpecDispatch == DispatchInit /\ [][DispatchNext]_<<vars, dvars>>

\* ================================================================
\* scripts/01a_create_control_files_static_setups_monoculture.py: the
\* generator of the monoculture control files.
\*
\* Salinities are kept in units of 1e-4; a path is the tuple of its
\* components below the folder all paths of a kind share.

setup_name == "monoculture_static"
salinities == <<350, 700, 1050, 1400>>
replicates == [i \in 1..10 |-> i]
generator_pfts == <<1, 2, 3, 4>>

\* f"{salinity:.3f}": the thousandths of the rounded value
Format3f(x) == (x + 5) \div 10

\* f"{n:02d}": two digits
Format02d(n) == <<n \div 10, n % 10>>

\* the output_dir element of write_xml_file, lines 80-83
output_dir(salinity, pft_idx, replicate) ==
    <<"..", "data_and_results", "data_raw", "monoculture", "static",
      Format3f(salinity), [prefix |-> "PFT_", idx |-> pft_idx], Format02d(replicate)>>

\* what write_xml_file puts into the file: the elements that depend on its
\* arguments
write_xml_file(salinity, replicate, pft_idx) ==
    [salinity   |-> <<Format3f(salinity), Format3f(salinity)>>,
     group      |-> [prefix |-> "Saltmarsh_", idx |-> pft_idx],
     output_dir |-> output_dir(salinity, pft_idx, replicate)]

\* line 105
xml_filename(salinity, pft_idx, n) ==
    <<"..", "xml_control_files",
      [setup |-> setup_name, pft |-> pft_idx, salinity |-> Format3f(salinity),
       n |-> Format02d(n)]>>

\* line 108
out_dir(salinity, pft_idx, n) ==
    <<"..", "data_and_results", "data_raw", "monoculture", "static",
      Format3f(salinity), [prefix |-> "pft_", idx |-> pft_idx], Format02d(n)>>

\* the loop variables of iteration k + 1 of the three nested loops
LoopVariables(k) ==
    [salinity |-> salinities[(k \div (Len(generator_pfts) * Len(replicates))) + 1],
     pft_idx  |-> generator_pfts[((k \div Len(replicates)) % Len(generator_pfts)) + 1],
     n        |-> replicates[(k % Len(replicates)) + 1]]

Iterations == Len(salinities) * Len(generator_pfts) * Len(replicates)

\* one iteration of the innermost loop, lines 105-116
GenerateOne ==
    /\ gen # <<>>
    /\ gen.k < Iterations
    /\ LET v == LoopVariables(gen.k)
           name == xml_filename(v.salinity, v.pft_idx, v.n)
           dir == out_dir(v.salinity, v.pft_idx, v.n)
       IN  /\ made' = made \cup {dir}
           /\ written' = (name :> write_xml_file(v.salinity, v.n, v.pft_idx)) @@ written
           /\ gen_done' = Append(gen_done, [combination |-> v, xml_filename |-> name,
                                            out_dir |-> dir])
    /\ gen' = [k |-> gen.k + 1]
    /\ UNCHANGED vars
    /\ UNCHANGED dvars

GenerateInit ==
    /\ gen = [k |-> 0]
    /\ written = <<>>
    /\ made = {}
    /\ gen_done = <<>>
    /\ parameter_base = NoObject /\ geometry_init = NoObject /\ conf = NoObject
    /\ pc = "idle" /\ sm = NoObject /\ sim = NoObject /\ cal = NoObject
    /\ target_h_ag = None /\ results = <<>> /\ todo = <<>> /\ ref_maint = None
    /\ err = NoErr /\ evals = <<>> /\ prev = NoObject /\ declared = NoObject
    /\ DispatcherIdle

GenerateNext == GenerateOne
SpecGenerate == GenerateInit /\ [][GenerateNext]_gvars

\* ================================================================ claims

\* ---- vocabulary of the claims
Geometry(s) == <<s.r_ag, s.h_ag, s.r_bg, s.h_bg>>
CylinderVolume(r, h) == r * r * h
VolumeOf(s) == CylinderVolume(s.r_ag, s.h_ag) + CylinderVolume(s.r_bg, s.h_bg)
\* a step has been taken on the current object and it returned normally
Stepped == sm # NoObject /\ prev # NoObject
Completed == Stepped /\ sm.err = NoErr /\ sm.finite
\* physically valid parameters: positive shape ratios, w_b_a in [0,1]
ValidParameters(p) ==
    /\ ParamKeys \subseteq DOMAIN p
    /\ p.w_ag > 0 /\ p.w_bg > 0
    /\ p.w_b_a >= 0 /\ p.w_b_a <= WS
    /\ p.sun_c >= 0 /\ p.water_c >= 0 /\ p.maint_factor >= 0 /\ p.growth_factor >= 0
NonNegativeParameters(p) ==
    /\ ParamKeys \subseteq DOMAIN p
    /\ \A k \in ParamKeys : p[k] >= 0
\* the geometry is what lines 216-219 compute from its own volumes
InversionFixedPoint(s) ==
    LET w_ag == s.parameter.w_ag
        w_bg == s.parameter.w_bg
    IN  /\ w_ag > 0 /\ w_bg > 0
        /\ s.h_ag = Cbrt((CylinderVolume(s.r_ag, s.h_ag) * WS * WS) \div (w_ag * w_ag))
        /\ s.r_ag = (w_ag * s.h_ag) \div WS
        /\ s.h_bg = Cbrt((CylinderVolume(s.r_bg, s.h_bg) * WS * WS) \div (w_bg * w_bg))
        /\ s.r_bg = (w_bg * s.h_bg) \div WS

\* C1 (as claimed): for fixed bg_factor, ag_factor, n_steps, dt, parameters
\* and geometry, a larger maint_factor never gives a larger terminal h_ag:
\* of any two simulate_h_ag calls of a run with the same bg_factor, the one
\* with the larger maint_factor returned the smaller or the same height.
C1_Monotonicity ==
    \A i, j \in DOMAIN evals :
        (/\ evals[i].bg_factor = evals[j].bg_factor
         /\ evals[i].maint_factor <= evals[j].maint_factor)
        => evals[j].h <= evals[i].h

\* ---- C2
\* the response the calibration of the current PFT searches
CalResponse(f) ==
    simulate_h_ag(cal.bg_factor, f, conf.N_STEPS, conf.DT, parameter_base,
                  geometry_init, conf.ag_factor)
\* width of the interval the last midpoint is taken from, rounded up
FinalResolution == (Abs(conf.f_max - conf.f_min) + Pow2(conf.max_iter) - 1) \div Pow2(conf.max_iter)
\* the hypotheses of the claim: iterations are allowed, the bracket is
\* ordered, the response is non-increasing over the bracket, it varies by
\* less than tol_h over the final resolution, and it attains the target
C2_Hypotheses ==
    /\ ~Malformed(parameter_base, geometry_init)
    /\ conf.max_iter >= 1
    /\ conf.f_min <= conf.f_max
    /\ LET H == [f \in conf.f_min .. conf.f_max |-> CalResponse(f)]
       IN  /\ \E f \in DOMAIN H : H[f] = cal.target_h_ag
           /\ \A f \in DOMAIN H : f < conf.f_max => H[f + 1] <= H[f]
           /\ \A f, g \in DOMAIN H :
                  Abs(f - g) <= FinalResolution => Abs(H[f] - H[g]) < conf.tol_h

\* C2: when the terminal height is a monotonically decreasing function of
\* maint_factor over [f_min, f_max] that is smooth at the resolution the
\* iterations reach, and the target is attained inside the bracket, the
\* height calibrate returns is closer to the target than tol_h.
C2_CalibrationConvergence ==
    (pc = "cal_return" /\ C2_Hypotheses)
        => /\ cal.h_best # None
           /\ Abs(cal.h_best - cal.target_h_ag) < cal.tol_h

\* C2 happens: a calibration returns for a response that really decreases
\* over the bracket, after rejecting at least one midpoint
C2_Witness ==
    /\ pc = "cal_return"
    /\ C2_Hypotheses
    /\ cal.it >= 1
    /\ CalResponse(conf.f_max) < CalResponse(conf.f_min)
    /\ Abs(cal.h_best - cal.target_h_ag) < cal.tol_h

\* ---- C3
\* C3: from non-negative geometry and physically valid parameters, after
\* every completed step the radii and heights are >= 0 and so are V_ag,
\* V_bg and volume.
C3_NonNegativity ==
    (sm # NoObject /\ sm.err = NoErr /\ sm.finite /\ ValidParameters(sm.parameter))
        => /\ \A x \in {sm.r_ag, sm.h_ag, sm.r_bg, sm.h_bg} : x >= 0
           /\ Has(sm, "volume") => (sm.V_ag >= 0 /\ sm.V_bg >= 0 /\ sm.volume >= 0)

\* C3 happens: a step whose shrinkage exceeded the aboveground volume, so
\* that the floor of line 213 decided the result
C3_Witness ==
    /\ Completed
    /\ ValidParameters(sm.parameter)
    /\ prev.r_ag > 0 /\ prev.h_ag > 0
    /\ sm.grow < 0
    /\ CylinderVolume(prev.r_ag, prev.h_ag) + (sm.grow * Half) \div RS < 0
    /\ sm.h_ag = 0 /\ sm.V_ag = 0

\* ---- C4
\* C4 (as claimed): a step with dt = 0 leaves r_ag, h_ag, r_bg, h_bg
\* unchanged and the recomputed volumes equal the prior ones, for every
\* plant state.
C4_ZeroStepIdempotence ==
    (Completed /\ sm.time = 0)
        => /\ Geometry(sm) = Geometry(prev)
           /\ sm.V_ag = CylinderVolume(prev.r_ag, prev.h_ag)
           /\ sm.V_bg = CylinderVolume(prev.r_bg, prev.h_bg)

\* C4 (amended): a step with dt = 0 leaves the geometry and the volumes
\* unchanged when the geometry is the one lines 216-219 derive from its own
\* volumes (r = w * h in both compartments).
C4_ZeroStepOnShapedGeometry ==
    (Completed /\ sm.time = 0 /\ InversionFixedPoint(prev))
        => /\ Geometry(sm) = Geometry(prev)
           /\ sm.V_ag = CylinderVolume(prev.r_ag, prev.h_ag)
           /\ sm.V_bg = CylinderVolume(prev.r_bg, prev.h_bg)

\* C4 happens: a zero-length step on a living plant of that shape
C4_Witness ==
    /\ Completed
    /\ sm.time = 0
    /\ InversionFixedPoint(prev)
    /\ prev.h_ag > 0 /\ prev.h_bg > 0
    /\ sm.parameter.maint_factor > 0
    /\ Geometry(sm) = Geometry(prev)

\* ---- C5
\* C5: a step with grow <= 0 leaves a total volume that is <= the total
\* volume before the step and >= 0.
C5_MassConservation ==
    (Completed /\ sm.grow <= 0)
        => /\ sm.volume = sm.V_ag + sm.V_bg
           /\ sm.volume <= VolumeOf(prev)
           /\ sm.volume >= 0

\* C5 happens: the second of two shrinking steps, with volume left
C5_Witness ==
    /\ Completed
    /\ Has(prev, "grow") /\ prev.grow < 0
    /\ sm.grow < 0
    /\ sm.volume > 0
    /\ sm.volume < VolumeOf(prev)

\* ---- C6
\* the last simulation the calibration asked for was a midpoint
LastWasMidpoint == sim.ret = "cal_judge"
ReturnsLastMidpoint ==
    /\ LastWasMidpoint
    /\ cal.f_best = sim.maint_factor
    /\ cal.h_best = sim.h
    /\ cal.h_best = CalResponse(cal.f_best)
    /\ evals[Len(evals)] = [bg_factor |-> cal.bg_factor,
                            maint_factor |-> cal.f_best, h |-> cal.h_best]
    /\ err = NoErr

\* C6 (as claimed): for every f_min, f_max, target, tol_h and max_iter,
\* calibrate returns (f, h) with f the last midpoint evaluated and h the
\* simulator's height for that f, and does not raise.
C6_BestEffortResult == pc = "cal_return" => ReturnsLastMidpoint

\* C6 (amended): for max_iter >= 1 calibrate returns (f, h) with f the last
\* midpoint evaluated and h the simulator's height for that f, also when
\* the tolerance was never met, and does not raise; for max_iter <= 0 no
\* midpoint is evaluated and it returns (None, None).
C6_BestEffortAfterAMidpoint ==
    pc = "cal_return"
        => IF cal.max_iter >= 1
           THEN ReturnsLastMidpoint
           ELSE cal.f_best = None /\ cal.h_best = None /\ ~LastWasMidpoint

\* C6 happens: the iterations ran out with the tolerance never met
C6_Witness ==
    /\ pc = "cal_return"
    /\ cal.max_iter >= 2
    /\ cal.it = cal.max_iter
    /\ ~Accepts(cal.h_best, cal.target_h_ag, cal.tol_h)
    /\ ReturnsLastMidpoint

\* ---- C7
\* C7: the reference PFT is recorded as (its bg_factor, its declared
\* maint_factor, the height of one direct simulate_h_ag run with that
\* maint_factor), that height is the target of every calibration, and
\* calibrate is never entered for the reference PFT.
C7_ReferenceIdentity ==
    /\ target_h_ag # None =>
          /\ evals[1] = [bg_factor |-> pfts[reference_pft],
                         maint_factor |-> declared.parameter.maint_factor,
                         h |-> target_h_ag]
          /\ target_h_ag = simulate_h_ag(pfts[reference_pft],
                               declared.parameter.maint_factor, conf.N_STEPS,
                               conf.DT, declared.parameter, declared.geometry,
                               conf.ag_factor)
    /\ (todo = <<>> \/ Head(todo) # reference_pft) /\ target_h_ag # None =>
          /\ Has(results, reference_pft)
          /\ results[reference_pft] = <<pfts[reference_pft],
                                        declared.parameter.maint_factor,
                                        target_h_ag>>
    /\ cal # <<>> =>
          /\ cal.pft # reference_pft
          /\ cal.target_h_ag = target_h_ag

\* C7 happens: the run is over, all four PFTs are recorded and the other
\* three were calibrated
C7_Witness ==
    /\ pc = "done"
    /\ DOMAIN results = DOMAIN pfts
    /\ conf.N_STEPS >= 1 /\ conf.max_iter >= 1
    /\ cal.pft = "pft_4"
    /\ results[reference_pft][3] = target_h_ag

\* ---- C8
\* C8: simulate_h_ag leaves the caller's parameter_base (its maint_factor
\* included) and geometry_init as they were declared, every invocation
\* starts from the caller's initial geometry, and invocations with equal
\* arguments return equal heights.
C8_SimulatorPurity ==
    /\ parameter_base = declared.parameter
    /\ geometry_init = declared.geometry
    /\ (pc = "sim_loop" /\ sim.i = 0) =>
          /\ \A k \in GeomKeys : sm[k] = declared.geometry[k]
          /\ sm.time = 0
    /\ \A i, j \in DOMAIN evals :
          (/\ evals[i].bg_factor = evals[j].bg_factor
           /\ evals[i].maint_factor = evals[j].maint_factor)
          => evals[i].h = evals[j].h

\* C8 happens: after runs that changed the geometry of their own plant and
\* used a maint_factor other than the declared one, a run is repeated with
\* equal arguments
C8_Witness ==
    /\ \E i, j \in DOMAIN evals :
          /\ i < j
          /\ evals[i].bg_factor = evals[j].bg_factor
          /\ evals[i].maint_factor = evals[j].maint_factor
          /\ evals[i].maint_factor # declared.parameter.maint_factor
          /\ evals[i].h # declared.geometry.h_ag
          /\ evals[i].h = evals[j].h
    /\ parameter_base = declared.parameter

\* ---- C9
\* C9 (as claimed): for a parameter or geometry record that lacks a
\* required key no terminal height is ever returned, whatever n_steps.
C9_FailFast ==
    Malformed(declared.parameter, declared.geometry) => evals = <<>>

\* ---- C10
\* C10 (as claimed): for any state with zero heights or radii and any
\* non-negative parameter values a step completes without raising and
\* yields finite geometry.
C10_NoErrorOnDegenerateStates ==
    (Stepped /\ NonNegativeParameters(prev.parameter))
        => sm.err = NoErr /\ sm.finite

\* ---- C11
\* the midpoint evaluations of the calibration that is returning: the last
\* cal.runs - 2 entries of evals
MidpointRuns == cal.runs - 2
MidpointEval(j) == evals[Len(evals) - MidpointRuns + j]
C11_Bounds ==
    /\ sim # <<>> =>
          /\ sim.i <= sim.n_steps
          /\ sim.h # None => sim.i = sim.n_steps
    /\ cal # <<>> =>
          /\ cal.it <= cal.max_iter
          /\ cal.runs <= cal.max_iter + 2
    /\ pc = "cal_return" =>
          /\ MidpointRuns >= 0 /\ MidpointRuns <= cal.max_iter
          /\ \A j \in 1 .. MidpointRuns :
                /\ MidpointEval(j).bg_factor = cal.bg_factor
                /\ j < MidpointRuns =>
                      ~Accepts(MidpointEval(j).h, cal.target_h_ag, cal.tol_h)
          /\ MidpointRuns < cal.max_iter =>
                /\ MidpointRuns >= 1
                /\ Accepts(MidpointEval(MidpointRuns).h, cal.target_h_ag, cal.tol_h)

\* the number of program steps still ahead in the worst case, as a function
\* of the position alone: n_steps bounds a trajectory, max_iter a calibration
SimCost == conf.N_STEPS + 2
IterationCost == SimCost + 2
LoopRest(it) == (conf.max_iter - it) * IterationCost + 2
CalRest(at) ==
    CASE at = "cal_high" -> 1 + SimCost + 1 + LoopRest(0)
      [] at = "cal_swap" -> 1 + LoopRest(0)
      [] at = "cal_loop" -> LoopRest(cal.it)
      [] at = "cal_judge" -> 1 + LoopRest(cal.it + 1)
      [] at = "cal_return" -> 1
CalCost == 1 + SimCost + CalRest("cal_high")
MainRest(n) == n * CalCost + 1
SimRest == IF pc = "sim_new" THEN sim.n_steps + 2 ELSE sim.n_steps - sim.i + 1
StepsAhead ==
    CASE pc = "main" -> 1 + SimCost + 1 + MainRest(Len(PftOrder))
      [] pc \in {"sim_new", "sim_loop"} ->
            SimRest + (IF sim.ret = "main_target"
                       THEN 1 + MainRest(Len(PftOrder))
                       ELSE CalRest(sim.ret) + MainRest(Len(todo) - 1))
      [] pc = "main_target" -> 1 + MainRest(Len(PftOrder))
      [] pc = "main_loop" -> MainRest(Len(todo))
      [] pc \in {"cal_high", "cal_swap", "cal_loop", "cal_judge", "cal_return"} ->
            CalRest(pc) + MainRest(Len(todo) - 1)
      [] pc \in {"done", "crashed"} -> 0

\* C11: simulate_h_ag returns after exactly n_steps steps; calibrate
\* evaluates at most max_iter midpoints (at most max_iter + 2 simulator
\* runs) and stops at the first midpoint within tol_h of the target; every
\* step of the program lowers the number of steps still ahead, which is
\* never negative, so the program always comes to an end.
C11_BoundedCost ==
    /\ [](C11_Bounds /\ StepsAhead >= 0)
    /\ [][StepsAhead' < StepsAhead]_vars

\* C11 happens: a calibration returns early, at its second midpoint, after
\* trajectories of MaxSteps steps
C11_Witness ==
    /\ pc = "cal_return"
    /\ sim.n_steps = MaxSteps /\ sim.i = MaxSteps
    /\ MidpointRuns = 2
    /\ cal.max_iter > 2
    /\ Accepts(cal.h_best, cal.target_h_ag, cal.tol_h)

\* ---- C12
\* calibrate_maintenance_for_bg_factor as a function of its arguments alone
\* (lines 294-322), on the records the program was started with
DeclaredResponse(bg_factor, f) ==
    simulate_h_ag(bg_factor, f, conf.N_STEPS, conf.DT, declared.parameter,
                  declared.geometry, conf.ag_factor)
RECURSIVE Bisect(_, _, _, _, _, _, _)
Bisect(bg_factor, target, f_min, f_max, it, f_best, h_best) ==
    IF ~LoopContinues(it, conf.max_iter) THEN <<f_best, h_best>>
    ELSE LET f_mid == Midpoint(f_min, f_max)
             h_mid == DeclaredResponse(bg_factor, f_mid)
             best == Best(f_best, h_best, f_mid, h_mid, target)
             b == NextBounds(f_min, f_max, f_mid, h_mid, target)
         IN  IF Accepts(h_mid, target, conf.tol_h) THEN best
             ELSE Bisect(bg_factor, target, b[1], b[2], it + 1, best[1], best[2])
calibrate_maintenance_for_bg_factor(bg_factor, target) ==
    IF Inverted(DeclaredResponse(bg_factor, conf.f_min),
                DeclaredResponse(bg_factor, conf.f_max))
    THEN Bisect(bg_factor, target, conf.f_max, conf.f_min, 0, None, None)
    ELSE Bisect(bg_factor, target, conf.f_min, conf.f_max, 0, None, None)
Members(seq) == {seq[i] : i \in DOMAIN seq}
C12_Recorded ==
    pc \in {"main_loop", "done", "crashed"} =>
        \A name \in DOMAIN results \ {reference_pft} :
            LET r == calibrate_maintenance_for_bg_factor(pfts[name], target_h_ag)
            IN  results[name] = <<pfts[name], r[1], r[2]>>
C12_Once ==
    /\ \A i, j \in DOMAIN todo : todo[i] = todo[j] => i = j
    /\ DOMAIN results \cap Members(todo) = {}
    /\ pc \in {"main_loop", "done"} => DOMAIN results \cup Members(todo) = DOMAIN pfts
    /\ pc = "done" => todo = <<>>
C12_Enter ==
    (pc = "main_loop" /\ pc' = "sim_new")
        => /\ ~Has(results, cal'.pft)
           /\ cal'.pft = Head(todo)
           /\ cal'.target_h_ag = target_h_ag
           /\ target_h_ag' = target_h_ag

Selected == dpc \in {"running", "done"}
\* the categories a list of names stands for
CategoriesOf(cats) == Members(cats) \cap DOMAIN CATEGORY_PATTERNS
\* the files of the folder that pass the category filter of this run
CategoryFiltered ==
    {f \in folder :
        /\ "all" \in Members(OnlyCategories) \/ f.stem \in CategoriesOf(OnlyCategories)
        /\ f.stem \notin CategoriesOf(args.exclude)}
\* the statuses the log, as main found it, holds for a file
LoggedStatuses(f) ==
    {csv_ic[k].status : k \in {j \in DOMAIN csv_ic : abspath(csv_ic[j].xml_file) = abspath(f)}}
NoRepeats(seq) == \A i, j \in DOMAIN seq : seq[i] = seq[j] => i = j

\* C13: the selection is a duplicate-free part of the category-filtered
\* files of the folder.  With retry_only it is exactly the filtered files
\* that have a log row whose status is not OK, whatever include_done is;
\* otherwise with include_done it is every filtered file; otherwise it is
\* exactly the filtered files without a log row of status OK.
C13_RunSelection ==
    Selected =>
        /\ Members(xml_files) \subseteq CategoryFiltered
        /\ NoRepeats(xml_files)
        /\ IF args.retry_errors
           THEN Members(xml_files) = {f \in CategoryFiltered : LoggedStatuses(f) \ {"OK"} # {}}
           ELSE IF IncludeDone
           THEN Members(xml_files) = CategoryFiltered
           ELSE Members(xml_files) = {f \in CategoryFiltered : "OK" \notin LoggedStatuses(f)}

\* a retry run with include_done set selects the one file of three that failed
C13_Witness ==
    /\ Selected
    /\ args.retry_errors /\ IncludeDone
    /\ Cardinality(CategoryFiltered) = 3
    /\ Len(xml_files) = 1
    /\ "OK" \notin LoggedStatuses(xml_files[1])

\* ---- C14
\* main went past the listing into the executor
Dispatched == Selected /\ xml_files # <<>> /\ ~args.list_only
\* the rows appended to the log by this run
Appended == SubSeq(csv, Len(csv_ic) + 1, Len(csv))
RowsOf(f) == {k \in DOMAIN Appended : Appended[k].xml_file = abspath(f)}

AtLoopEntry == pc = "cal_loop" /\ cal.it = 0 /\ cal.f_best = None
C15_Entry ==
    /\ (cal # <<>> /\ cal.h_high # None) => cal.h_low >= cal.h_high
    /\ AtLoopEntry =>
          /\ cal.h_low = DeclaredResponse(cal.bg_factor, cal.f_min)
          /\ cal.h_high = DeclaredResponse(cal.bg_factor, cal.f_max)
          /\ {cal.f_min, cal.f_max} = {conf.f_min, conf.f_max}
\* the step that judges the endpoints: cal.h_low is the height at the
\* original f_min, sim.h the height at the original f_max
C15_Swap ==
    pc = "cal_swap" =>
        IF cal.h_low < sim.h
        THEN /\ cal'.f_min = cal.f_max /\ cal'.f_max = cal.f_min
             /\ cal'.h_low = sim.h /\ cal'.h_high = cal.h_low
        ELSE /\ cal'.f_min = cal.f_min /\ cal'.f_max = cal.f_max
             /\ cal'.h_low = cal.h_low /\ cal'.h_high = sim.h

\* C15: after the endpoint evaluations and the conditional swap the height
\* recorded for f_min is >= the one recorded for f_max; the swap exchanges
\* factors and heights together and happens exactly when the height at the
\* original f_min is strictly less than the one at the original f_max.
C15_BisectionEntry == []C15_Entry /\ [][C15_Swap]_vars

\* C15 happens: the endpoints were inverted and have been exchanged
C15_Witness ==
    /\ AtLoopEntry
    /\ conf.f_min # conf.f_max
    /\ cal.f_min = conf.f_max /\ cal.f_max = conf.f_min
    /\ cal.h_low > cal.h_high
    /\ cal.h_high = evals[Len(evals) - 1].h

\* ---- C16
\* a midpoint is asked for: it is the mean of the bounds
C16_Evaluate ==
    (pc = "cal_loop" /\ pc' = "sim_new")
        => /\ 2 * sim'.maint_factor = cal.f_min + cal.f_max
           /\ sim'.bg_factor = cal.bg_factor
           /\ cal' = cal
\* the midpoint is judged: sim.maint_factor is f_mid, sim.h its height
C16_Judge ==
    pc = "cal_judge" =>
        /\ 2 * sim.maint_factor = cal.f_min + cal.f_max
        /\ sim.h = DeclaredResponse(cal.bg_factor, sim.maint_factor)
        /\ IF Abs(sim.h - cal.target_h_ag) < cal.tol_h
           THEN /\ pc' = "cal_return"
                /\ cal'.f_min = cal.f_min /\ cal'.f_max = cal.f_max
           ELSE /\ pc' = "cal_loop"
                /\ IF sim.h > cal.target_h_ag
                   THEN cal'.f_min = sim.maint_factor /\ cal'.f_max = cal.f_max
                   ELSE cal'.f_max = sim.maint_factor /\ cal'.f_min = cal.f_min

\* C16: each iteration evaluates f_mid = (f_min + f_max) / 2; when its
\* height is within tol_h of the target the loop stops with both bounds
\* unchanged, otherwise f_mid replaces f_min when the height is above the
\* target and f_max when it is not, the other bound staying as it was.
C16_BisectionStep == [][C16_Evaluate /\ C16_Judge]_vars

\* C16 happens: after at least two rejected midpoints both bounds have been
\* replaced
C16_Witness ==
    /\ pc = "cal_loop"
    /\ cal.it >= 2
    /\ cal.f_min \notin {conf.f_min, conf.f_max}
    /\ cal.f_max \notin {conf.f_min, conf.f_max}
    /\ conf.f_min < conf.f_max

\* ---- C17
\* ratio_vol of the step just taken, from the volumes before growth
PreRatioVol ==
    (CylinderVolume(prev.r_ag, prev.h_ag) * VS)
        \div Max(CylinderVolume(prev.r_bg, prev.h_bg), VolFloor)
\* the adjustment the claim prescribes
DeadBandAdjustment(ratio_vol, adj) ==
    IF \/ (RatioVolLo <= ratio_vol /\ ratio_vol <= RatioVolHi)
       \/ (ratio_vol > RatioVolHi /\ adj < 0)
       \/ (ratio_vol < RatioVolLo /\ adj > 0)
    THEN adj ELSE 0

\* C17: in a step with grow > 0 the adjustment used for the allocation is
\* 0.5 - ratio_ag when ratio_vol is in [0.15, 2.5], or above 2.5 with a
\* negative adjustment, or below 0.15 with a positive one, and 0 otherwise,
\* with ratio_vol taken from the volumes before growth.
C17_DeadBand ==
    (Completed /\ sm.grow > 0)
        => /\ sm.adjustment = DeadBandAdjustment(PreRatioVol, Half - sm.ratio_ag)
           /\ sm.w_ratio_ag_bg = sm.parameter.w_b_a * (RS - sm.adjustment)

\* C17 happens: a growing step whose adjustment was reset to 0
C17_Witness ==
    /\ Completed
    /\ sm.grow > 0
    /\ Half - sm.ratio_ag # 0
    /\ sm.adjustment = 0
    /\ sm.w_ratio_ag_bg = sm.parameter.w_b_a * RS

\* ---- C18
\* the step just taken, replayed up to line 246 (before plantGrowth) and up
\* to line 249 (after plantGrowth, before the last plantVolume)
PreGrowth ==
    growthResources(bgResources(agResources(plantMaintenance(plantVolume(
        SetFactors(prepareNextTimeStep(prev, 0, sm.time),
                   sm.ag_factor, sm.bg_factor))))))
Grown == plantGrowth(PreGrowth)
HalfGrow == (sm.grow * Half) \div RS

\* C18 (as claimed): in every step with grow <= 0 both volumes change by
\* the same amount, 0.5 * grow each.
C18_EqualShrinkage ==
    (Completed /\ sm.grow <= 0)
        => /\ Grown.V_ag - PreGrowth.V_ag = HalfGrow
           /\ Grown.V_bg - PreGrowth.V_bg = HalfGrow

\* C18 (amended): in every step with grow <= 0 both volumes receive the
\* same increment 0.5 * grow and are then floored at 0: each becomes
\* max(V + 0.5 * grow, 0), so they shrink equally unless a floor engages.
C18_EqualIncrementsThenFloor ==
    (Completed /\ sm.grow <= 0)
        => /\ sm = plantVolume(Grown)
           /\ PreGrowth.grow = sm.grow
           /\ Grown.V_ag = Max(PreGrowth.V_ag + HalfGrow, 0)
           /\ Grown.V_bg = Max(PreGrowth.V_bg + HalfGrow, 0)
           /\ (PreGrowth.V_ag + HalfGrow >= 0 /\ PreGrowth.V_bg + HalfGrow >= 0)
                 => Grown.V_ag - PreGrowth.V_ag = Grown.V_bg - PreGrowth.V_bg

\* C18 happens: two compartments of different size shrink by the same amount
C18_Witness ==
    /\ Completed
    /\ sm.grow < 0
    /\ PreGrowth.V_ag # PreGrowth.V_bg
    /\ PreGrowth.V_ag + HalfGrow > 0 /\ PreGrowth.V_bg + HalfGrow > 0
    /\ Grown.V_ag - PreGrowth.V_ag = HalfGrow
    /\ Grown.V_bg - PreGrowth.V_bg = HalfGrow

\* ---- C19
\* C19: when a step returns, V_ag, V_bg, volume and r_V_ag_bg are those of
\* the updated geometry, while maintenance and resources of the step were
\* computed from the geometry the step started with.
C19_PostStepVolumes ==
    Completed =>
        /\ sm.V_ag = sm.r_ag * sm.r_ag * sm.h_ag
        /\ sm.V_bg = sm.r_bg * sm.r_bg * sm.h_bg
        /\ sm.volume = sm.V_ag + sm.V_bg
        /\ sm.r_V_ag_bg = (sm.V_ag * VS) \div Max(sm.V_bg, VolFloor)
        /\ sm.maint = (VolumeOf(prev) * sm.parameter.maint_factor * sm.time) \div MS
        /\ sm.ag_resources =
              (sm.ag_factor * prev.r_ag * prev.r_ag * sm.parameter.sun_c * sm.time) \div FS
        /\ sm.bg_resources =
              ((sm.bg_factor * prev.r_bg * prev.r_bg * prev.h_bg
                  * sm.parameter.sun_c * sm.parameter.water_c * 2)
                \div (FS * WCS * Max(2 * prev.h_ag + prev.h_bg, DenomFloor))) * sm.time

\* C19 happens: a step that grew the plant, with maintenance and resources
\* that the new geometry would not have given
C19_Witness ==
    /\ Completed
    /\ sm.grow > 0
    /\ sm.h_ag > prev.h_ag /\ sm.h_bg > prev.h_bg
    /\ sm.volume > VolumeOf(prev)
    /\ sm.maint > 0
    /\ sm.maint # (sm.volume * sm.parameter.maint_factor * sm.time) \div MS
    /\ sm.V_ag = sm.r_ag * sm.r_ag * sm.h_ag

\* ---- C20
\* C20: after every completed step, whatever the geometry it started from,
\* r_ag = w_ag * h_ag and r_bg = w_bg * h_bg, with h_ag and h_bg the cube
\* roots of the volumes after growth divided by pi * w^2.
C20_AspectRatio ==
    Completed =>
        LET w_ag == sm.parameter.w_ag
            w_bg == sm.parameter.w_bg
        IN  /\ sm.h_ag = Cbrt((Grown.V_ag * WS * WS) \div (w_ag * w_ag))
            /\ sm.r_ag = (w_ag * sm.h_ag) \div WS
            /\ sm.h_bg = Cbrt((Grown.V_bg * WS * WS) \div (w_bg * w_bg))
            /\ sm.r_bg = (w_bg * sm.h_bg) \div WS

\* C20 happens: a living plant whose geometry did not have the ratio takes
\* a step and has it
C20_Witness ==
    /\ Completed
    /\ sim.i = 1
    /\ prev.r_ag # (prev.parameter.w_ag * prev.h_ag) \div WS
    /\ prev.r_bg # (prev.parameter.w_bg * prev.h_bg) \div WS
    /\ sm.h_ag > 0 /\ sm.h_bg > 0
    /\ sm.r_ag = (sm.parameter.w_ag * sm.h_ag) \div WS
    /\ sm.r_bg = (sm.parameter.w_bg * sm.h_bg) \div WS

\* ---- C21
C21_Fields == {"r_ag_ic", "r_bg_ic", "volume_ic"}
C21_Trackers == {"w_h_ag", "w_r_ag", "w_h_bg", "w_r_bg"}
C21_Step ==
    /\ sm'.parameter = sm.parameter
    /\ \A k \in C21_Fields : sm'[k] = sm[k]
    /\ \A k \in C21_Trackers : sm'[k] = 0
    /\ \E f \in EngineFactors, dt \in EngineDt :
          /\ sm' = progress_one_timestep(sm, f[1], f[2], dt)
          /\ sm'.time = dt

\* C21: a step leaves the species parameters of the object and its fields
\* r_ag_ic, r_bg_ic and volume_ic as they were; after it the field time is
\* the dt of the call and the four delta trackers are 0.  The parameters and
\* the initial-condition fields are therefore those of the construction in
\* every state.
C21_FrameOfAStep ==
    /\ [][C21_Step]_vars
    /\ [](/\ sm.parameter = declared.parameter
          /\ \A k \in C21_Fields : sm[k] = declared.geometry[k])

\* two steps of different length on a plant whose geometry has moved away
\* from its initial condition
C21_Witness ==
    /\ pc = "engine" /\ sim.i >= 2
    /\ prev.time = 1 /\ sm.time = 0
    /\ sm.r_ag # sm.r_ag_ic
    /\ sm.V_ag + sm.V_bg # sm.volume_ic

Reverse(seq) == [i \in DOMAIN seq |-> seq[Len(seq) + 1 - i]]
\* file lists, only-lists and exclude-lists the filter is applied to
C23_Files == {<<>>, list_all_xml, Reverse(list_all_xml)}
C23_Only ==
    {<<>>, <<"all">>, <<"community_dynamic", "all">>, <<"typo">>,
     <<"one_plant_static", "typo", "community_dynamic">>, CATEGORIES_TO_RUN}
C23_Exclude == {<<>>, <<"one_plant_static">>, <<"typo", "community_dynamic">>, <<"all">>}
\* the claim's rule for one file
C23_Kept(f, only, excl) ==
    /\ \/ only = <<>>
       \/ "all" \in Members(only)
       \/ \E c \in CategoriesOf(only) : f.dir = XML_FOLDER /\ f.stem = c
    /\ ~ \E c \in CategoriesOf(excl) : f.dir = XML_FOLDER /\ (c = "all" \/ f.stem = c)
C23_Rule(files, only, excl) ==
    LET out == filter_by_categories(files, only, excl)
    IN  /\ out = SelectSeq(files, LAMBDA f : C23_Kept(f, only, excl))
        /\ Members(out) \subseteq Members(files)
        /\ Len(out) <= Len(files)
        /\ files = <<>> => out = <<>>

\* C23: filter_by_categories keeps, in input order, the files that pass the
\* only-list (no restriction when it is empty or holds "all", otherwise a
\* match with at least one listed known category) and match no excluded
\* category; an empty input gives an empty result.  Checked on the inputs
\* above and on the call main makes.
C23_CategoryFiltering ==
    /\ dpc = "start" =>
          \A files \in C23_Files, only \in C23_Only, excl \in C23_Exclude :
              C23_Rule(files, only, excl)
    /\ (Selected /\ ~args.retry_errors /\ IncludeDone) =>
          /\ C23_Rule(list_all_xml, OnlyCategories, args.exclude)
          /\ xml_files = SelectSeq(list_all_xml,
                                   LAMBDA f : C23_Kept(f, OnlyCategories, args.exclude))

\* the only-list names one_plant_static and the exclude-list removes it
C23_Witness ==
    /\ Selected /\ ~args.retry_errors /\ IncludeDone
    /\ args.override_only = <<>> /\ config.CATEGORIES_TO_RUN = CATEGORIES_TO_RUN
    /\ args.exclude = <<"one_plant_static">>
    /\ Cardinality(folder) = 3 /\ Len(xml_files) = 1
    /\ \E f \in folder : f.stem = "one_plant_static"

\* ---- C24
\* the combinations the loop has gone through
C24_Combinations == {gen_done[k].combination : k \in DOMAIN gen_done}
\* one file per combination, each under its own name
C24_OneFileEach ==
    /\ Cardinality(C24_Combinations) = Len(gen_done)
    /\ Cardinality(DOMAIN written) = Len(gen_done)
    /\ \A k \in DOMAIN gen_done :
          LET v == gen_done[k].combination
              f == written[gen_done[k].xml_filename]
          IN  /\ f.salinity[1] = Format3f(v.salinity)
              /\ f.group.idx = v.pft_idx
              /\ f.output_dir[8] = Format02d(v.n)
    /\ gen # <<>> /\ gen.k = Iterations =>
          C24_Combinations =
              {[salinity |-> salinities[i], pft_idx |-> generator_pfts[j], n |-> replicates[r]] :
                  i \in DOMAIN salinities, j \in DOMAIN generator_pfts, r \in DOMAIN replicates}
\* the directory created is the one the file names
C24_SameDirectory ==
    \A k \in DOMAIN gen_done :
        /\ gen_done[k].out_dir \in made
        /\ written[gen_done[k].xml_filename].output_dir = gen_done[k].out_dir

\* C24: one configuration is written per (salinity, PFT, replicate)
\* combination, each under a distinct file name, and the directory created
\* for a combination is the path written as output_dir into its
\* configuration.
C24_ControlFileGeneration == C24_OneFileEach /\ C24_SameDirectory

\* ---- C25
\* the interval spanned by the endpoints calibrate was called with
C25_Lo == Min(conf.f_min, conf.f_max)
C25_Hi == Max(conf.f_min, conf.f_max)
\* both bounds inside the closed interval, their distance halved by every
\* iteration that did not accept
C25_Bounds ==
    cal # <<>> =>
        /\ C25_Lo <= cal.f_min /\ cal.f_min <= C25_Hi
        /\ C25_Lo <= cal.f_max /\ cal.f_max <= C25_Hi
        /\ Abs(cal.f_max - cal.f_min) * Pow2(cal.it) = C25_Hi - C25_Lo
\* the midpoints: the one being judged and the one kept for the return
C25_Midpoints ==
    (IF pc = "cal_judge" THEN {sim.maint_factor} ELSE {})
        \cup (IF cal # <<>> /\ cal.f_best # None THEN {cal.f_best} ELSE {})

\* C25 as stated: the bounds stay in the closed interval of the original
\* endpoints, after k iterations that did not accept their distance is
\* |f_max - f_min| / 2^k, and every midpoint lies strictly between the two
\* original endpoints.
C25_BracketInvariant ==
    /\ C25_Bounds
    /\ \A f \in C25_Midpoints : C25_Lo < f /\ f < C25_Hi

\* C25: the bounds stay in the closed interval of the original endpoints and
\* after k iterations that did not accept their distance is
\* |f_max - f_min| / 2^k; every midpoint lies strictly between the original
\* endpoints when these differ and is their common value when f_min = f_max.
C25_BracketInvariantClosed ==
    /\ C25_Bounds
    /\ \A f \in C25_Midpoints :
          IF C25_Lo = C25_Hi THEN f = C25_Lo ELSE C25_Lo < f /\ f < C25_Hi

\* a calibration that used all its iterations on an interval given in
\* decreasing order
C25_Witness ==
    /\ pc = "cal_return"
    /\ conf.f_min > conf.f_max
    /\ cal.it = MaxIter /\ cal.it = cal.max_iter
    /\ Abs(cal.f_max - cal.f_min) * MS = C25_Hi - C25_Lo
    /\ cal.f_best \notin {cal.f_min + cal.f_max, C25_Lo, C25_Hi}

\* ---- C26
\* the response is non-increasing over the interval of the original
\* endpoints and the target lies further than tol_h outside the range of the
\* two endpoint heights
C26_Unbracketed ==
    /\ ~Malformed(parameter_base, geometry_init)
    /\ LET H == [f \in C25_Lo .. C25_Hi |-> CalResponse(f)]
       IN  /\ \A f \in DOMAIN H : f < C25_Hi => H[f + 1] <= H[f]
           /\ \/ cal.target_h_ag > H[C25_Lo] + cal.tol_h
              \/ cal.target_h_ag < H[C25_Hi] - cal.tol_h
\* nothing is signalled, every iteration is used, one bound is still an
\* original endpoint
C26_RunsToTheEnd ==
    /\ err = NoErr
    /\ cal.it = cal.max_iter
    /\ cal.runs = cal.max_iter + 2
    /\ cal.f_min \in {conf.f_min, conf.f_max} \/ cal.f_max \in {conf.f_min, conf.f_max}
\* the factor returned is at |f_max - f_min| / 2^max_iter from an endpoint
\* of the interval and its height misses the target by at least tol_h
C26_ReturnsNearAnEndpoint ==
    /\ cal.f_best # None /\ cal.h_best # None
    /\ \E e \in {conf.f_min, conf.f_max} :
          /\ Abs(cal.f_best - e) * Pow2(cal.max_iter) <= C25_Hi - C25_Lo
          /\ e \in {cal.f_min, cal.f_max}
    /\ cal.f_best \in {cal.f_min, cal.f_max}
    /\ cal.h_best = CalResponse(cal.f_best)
    /\ Abs(cal.h_best - cal.target_h_ag) >= cal.tol_h

\* C26 as stated: for a monotone response and a target outside the range of
\* the endpoint heights by more than tol_h, calibrate signals nothing, runs
\* all max_iter iterations moving the same bound every time, and returns a
\* factor within |f_max - f_min| / 2^max_iter of one endpoint whose height
\* misses the target by at least tol_h.
C26_UnbracketedTarget ==
    (pc = "cal_return" /\ C26_Unbracketed)
        => C26_RunsToTheEnd /\ C26_ReturnsNearAnEndpoint

\* C26: the same for max_iter >= 1; for max_iter = 0 calibrate signals
\* nothing either and returns (None, None).
C26_UnbracketedTargetAfterAMidpoint ==
    (pc = "cal_return" /\ C26_Unbracketed)
        => /\ C26_RunsToTheEnd
           /\ IF cal.max_iter >= 1 THEN C26_ReturnsNearAnEndpoint
              ELSE cal.f_best = None /\ cal.h_best = None

\* a response that really decreases, a target below both endpoint heights,
\* all iterations used: the lower bound has moved up to the grid point next
\* to the upper endpoint
C26_Witness ==
    /\ pc = "cal_return" /\ C26_Unbracketed
    /\ cal.max_iter = MaxIter /\ cal.it = MaxIter
    /\ CalResponse(C25_Hi) < CalResponse(C25_Lo)
    /\ cal.target_h_ag < CalResponse(C25_Hi) - cal.tol_h
    /\ cal.f_max = C25_Hi /\ cal.f_min = cal.f_best
    /\ cal.f_best \notin {C25_Lo, C25_Hi}

\* ---- C27
\* the step just taken had positive net growth, w_b_a in [0,1] and both
\* factors in (0,1]
C27_PositiveGrowth ==
    /\ Completed
    /\ sm.grow > 0
    /\ ValidParameters(sm.parameter)
    /\ 0 < sm.ag_factor /\ sm.ag_factor <= FS
    /\ 0 < sm.bg_factor /\ sm.bg_factor <= FS

\* C27: in a step with grow > 0, w_b_a in [0,1] and factors in (0,1], the
\* allocation weight w_b_a * (1 - adjustment) lies in [0,1], so that neither
\* compartment loses volume in the step.
C27_AllocationWeightRange ==
    C27_PositiveGrowth =>
        /\ 0 <= sm.w_ratio_ag_bg /\ sm.w_ratio_ag_bg <= WS * RS
        /\ Grown.V_ag >= PreGrowth.V_ag
        /\ Grown.V_bg >= PreGrowth.V_bg

\* ---- C28
\* the increments lines 197-206 computed in the step just taken
C28_Split == Allocation(Set(PreGrowth, "ratio_ag", sm.ratio_ag))
C28_Sum == C28_Split.V_ag_incr + C28_Split.V_bg_incr
C28_NotFloored ==
    /\ PreGrowth.V_ag + C28_Split.V_ag_incr >= 0
    /\ PreGrowth.V_bg + C28_Split.V_bg_incr >= 0

\* C28: in both branches of the split the two increments add up to grow,
\* to the rounding of the grid (each increment is rounded down on its own, so
\* the sum is grow or one unit less); when no compartment is floored at 0 the
\* total volume lines 208-214 leave is the total before the step plus the
\* two increments.
C28_BudgetSplit ==
    Completed =>
        /\ PreGrowth.grow = sm.grow
        /\ sm.grow - 1 <= C28_Sum /\ C28_Sum <= sm.grow
        /\ PreGrowth.V_ag + PreGrowth.V_bg = VolumeOf(prev)
        /\ C28_NotFloored =>
              /\ Grown.V_ag = PreGrowth.V_ag + C28_Split.V_ag_incr
              /\ Grown.V_bg = PreGrowth.V_bg + C28_Split.V_bg_incr
              /\ Grown.V_ag + Grown.V_bg = VolumeOf(prev) + C28_Sum

\* a growing step with an unequal split followed by a shrinking step, no
\* floor engaged in the latter
C28_Witness ==
    /\ Completed /\ C28_NotFloored
    /\ sm.grow < 0 /\ C28_Sum = sm.grow
    /\ Has(prev, "grow") /\ prev.grow > 0
    /\ prev.w_ratio_ag_bg \notin {0, RS, WS * RS}
    /\ Grown.V_ag > 0 /\ Grown.V_bg > 0

\* ---- C29
\* the step just taken started with a compartment of volume zero, with
\* non-negative parameters and factors
C29_DeadAg == CylinderVolume(prev.r_ag, prev.h_ag) = 0
C29_DeadBg == CylinderVolume(prev.r_bg, prev.h_bg) = 0
C29_StartedDead ==
    /\ Stepped
    /\ NonNegativeParameters(prev.parameter)
    /\ sm.ag_factor >= 0 /\ sm.bg_factor >= 0
    /\ C29_DeadAg \/ C29_DeadBg

\* C29: a step that starts with zero aboveground or zero belowground volume
\* has available resources 0 and grow = -maint <= 0; the zero compartment
\* is zero after it and the total volume has not increased, so the same
\* holds for every later step; with both volumes zero the step leaves the
\* geometry as it was.
C29_DeadCompartments ==
    C29_StartedDead =>
        /\ sm.err = NoErr /\ sm.finite
        /\ sm.available_resources = 0
        /\ sm.grow = 0 - sm.maint /\ sm.grow <= 0
        /\ C29_DeadAg => sm.V_ag = 0
        /\ C29_DeadBg => sm.V_bg = 0
        /\ sm.volume <= VolumeOf(prev)
        /\ (C29_DeadAg /\ C29_DeadBg) => Geometry(sm) = Geometry(prev)

\* ---- C30
\* the rows the log, as main found it, holds for a file, oldest first
C30_RowsOf(f) == {k \in DOMAIN csv_ic : abspath(csv_ic[k].xml_file) = abspath(f)}
C30_Latest(f) == csv_ic[CHOOSE k \in C30_RowsOf(f) : \A j \in C30_RowsOf(f) : j <= k]

\* C30: a retry run selects a file only if the most recent row the log holds
\* for it does not have status OK; a file that failed and was later re-run
\* successfully is not selected for retry.
C30_RetryFollowsLatest ==
    (Selected /\ args.retry_errors) =>
        \A i \in DOMAIN xml_files :
            /\ C30_RowsOf(xml_files[i]) # {}
            /\ C30_Latest(xml_files[i]).status # "OK"

============================================================================
